---------------------------- MODULE Spec2Model ----------------------------
(***************************************************************************)
(* Audio transcriber: the POST /api/transcribe handler (the compression    *)
(* variant of server/routes.ts and the simple one), the compressor, the    *)
(* transcription client, the diarizer and the summarizer.                  *)
(*                                                                         *)
(* Node runs the synchronous code between two awaits as one step, so one   *)
(* action is the code from one suspension point to the next.               *)
(***************************************************************************)
EXTENDS Integers, Sequences, FiniteSets, TLC

(***************************************************************************)
(* Bounds of the model.                                                    *)
(***************************************************************************)
NumRequests == 1

Reqs == 1..NumRequests

\* The requests of the specification in which generated names may collide.
NumConcurrent == 2

Concurrent == 1..NumConcurrent

AllReqs == Reqs \cup Concurrent

(***************************************************************************)
(* Configuration constants of the two variants of routes.ts.               *)
(***************************************************************************)
MB == 1024 * 1024

maxWhisperFileSize == 25 * MB

Variants == {"compress", "simple"}

\* A faulty variant: no effective limit on the size of an upload.
fileSizeLimitNone(v) == 1000 * MB

fileSizeLimit(v) == IF v = "compress" THEN 100 * MB ELSE 25 * MB

allowedMimes == {"audio/mpeg", "audio/wav", "audio/mp4", "audio/x-m4a"}

\* Declared MIME types and byte sizes of the uploads the clients send.
Mimes == allowedMimes \cup {"video/mp4"}

UploadSizes == {1, maxWhisperFileSize, maxWhisperFileSize + 1, 30 * MB,
                100 * MB, 100 * MB + 1}

(***************************************************************************)
(* Scratch storage.  A path is the generated upload name together with the *)
(* number of "compressed-" prefixes (and ".ogg" suffixes) put around it.   *)
(***************************************************************************)
\* The values of Date.now() + "-" + Math.round(Math.random() * 1e9) + ext.
Suffixes == AllReqs

Paths == [name : Suffixes, prefix : 0..1]

NoPath == [name |-> 0, prefix |-> 0]

NoFile == 0 - 1

\* multer's filename callback: uniqueSuffix + ext.
filename(uniqueSuffix) == [name |-> uniqueSuffix, prefix |-> 0]

\* A draw of Date.now() and Math.random() that no other request has made.
freshSuffix(r) == r

\* path.join(outputDir, `compressed-${path.basename(inputPath)}.ogg`)
outputPathOf(inputPath) == [name |-> inputPath.name, prefix |-> inputPath.prefix + 1]

existsSync(fsys, p) == p \in DOMAIN fsys /\ fsys[p] # NoFile

\* fs.statSync(p).size of an existing file
statSize(fsys, p) == fsys[p]

unlinkFile(fsys, p) == [fsys EXCEPT ![p] = NoFile]

(***************************************************************************)
(* What the external encoder (ffmpeg) can do: exit status, and the output  *)
(* file it leaves behind (none, empty, or of some size).                   *)
(***************************************************************************)
EncoderOutputs == {NoFile, 0, 1000, maxWhisperFileSize, maxWhisperFileSize + 1,
                   40 * MB}

EncoderRuns == [exit : {"ok", "fail"}, out : EncoderOutputs]

(***************************************************************************)
(* JavaScript errors: the message (a sequence of string parts) and the     *)
(* optional `response` with `status` and `data.error.message`.             *)
(***************************************************************************)
NoResponseField == [present |-> FALSE, status |-> 0, hasData |-> FALSE, apiMessage |-> ""]

JsError(msg) == [message |-> msg, response |-> NoResponseField]

\* Failures of the external speech-to-text call.
ServiceErrors ==
    { [message |-> <<"Request failed with status code 429">>,
       response |-> [present |-> TRUE, status |-> 429, hasData |-> TRUE,
                     apiMessage |-> "Rate limit reached"]],
      [message |-> <<"Request failed with status code 401">>,
       response |-> [present |-> TRUE, status |-> 401, hasData |-> TRUE,
                     apiMessage |-> ""]],
      [message |-> <<"Request failed with status code 503">>,
       response |-> [present |-> TRUE, status |-> 503, hasData |-> FALSE,
                     apiMessage |-> ""]],
      JsError(<<"connect ECONNRESET">>),
      JsError(<<>>) }

\* Outcomes of openai.audio.transcriptions.create: a transcription (whose
\* text is a string or not), or a thrown error.
ServiceOutcomes ==
    [ok : {TRUE}, textIsString : BOOLEAN, error : {JsError(<<>>)}]
    \cup [ok : {FALSE}, textIsString : {FALSE}, error : ServiceErrors]

\* transcribeAudio, lines 33-45: what its catch block rethrows.
transcribeAudioCatch(error) ==
    IF error.response.present /\ error.response.hasData
    THEN JsError(<<IF error.response.apiMessage # ""
                   THEN error.response.apiMessage ELSE "OpenAI API error">>)
    ELSE JsError(<<"Failed to transcribe audio: ">> \o error.message)

\* transcribeAudio, lines 16-18: the existence check; the error it throws
\* goes through its own catch block.
AudioFileNotFound == transcribeAudioCatch(JsError(<<"Audio file not found">>))

\* transcriptionSchema.parse: text must be a string.
ZodError == JsError(<<"ZodError: text: Expected string">>)

(***************************************************************************)
(* Responses.                                                              *)
(***************************************************************************)
NoResponse == [status |-> 0, message |-> <<>>, wasCompressed |-> FALSE]

OkResponse(wc) == [status |-> 200, message |-> <<>>, wasCompressed |-> wc]

ErrorResponse(st, msg) == [status |-> st, message |-> msg, wasCompressed |-> FALSE]

\* The two catch blocks of the handler: the inner one maps an error with a
\* `response.status`, the outer one sends 500.
handlerCatch(error) ==
    IF error.response.present /\ error.response.status # 0
    THEN ErrorResponse(error.response.status,
                       <<IF error.response.hasData /\ error.response.apiMessage # ""
                         THEN error.response.apiMessage ELSE "OpenAI API error">>)
    ELSE ErrorResponse(500, IF error.message # <<>> THEN error.message
                            ELSE <<"Failed to transcribe audio">>)

(***************************************************************************)
(* JavaScript strings are sequences of characters; a string literal of the *)
(* source that the code never takes apart ("Speaker 1", an object key) is  *)
(* a single character of the model.                                        *)
(***************************************************************************)
IsSpace(c) == c \in {" "}

IsPunct(c) == c \in {".", "?", "!"}

IsUpper(c) == c \in {"A", "B", "C", "D", "E", "F", "G", "H", "I", "J", "K", "L", "M",
                     "N", "O", "P", "Q", "R", "S", "T", "U", "V", "W", "X", "Y", "Z"}

Min(a, b) == IF a < b THEN a ELSE b

Max(a, b) == IF a > b THEN a ELSE b

\* The index of the last element of the run of whitespace that starts at i.
RECURSIVE spaceRunEnd(_, _)
spaceRunEnd(s, i) ==
    IF i < Len(s) /\ IsSpace(s[i + 1]) THEN spaceRunEnd(s, i + 1) ELSE i

least(S) == CHOOSE k \in S : \A m \in S : k <= m

\* The positions from i on that hold whitespace right after a '.', '?' or '!'.
afterPunct(s, i) == {k \in i..Len(s) : IsSpace(s[k]) /\ k > 1 /\ IsPunct(s[k - 1])}

\* s.split(/(?<=\.|\?|\!)\s+/g): the pieces between the runs of whitespace
\* that follow a '.', '?' or '!'.  `start` is where the current piece begins,
\* i the position the search goes on from.
RECURSIVE splitFrom(_, _, _)
splitFrom(s, start, i) ==
    IF afterPunct(s, i) = {} THEN <<SubSeq(s, start, Len(s))>>
    ELSE LET k == least(afterPunct(s, i))
             j == spaceRunEnd(s, k)
         IN  <<SubSeq(s, start, k - 1)>> \o splitFrom(s, j + 1, j + 1)

splitSentences(s) == splitFrom(s, 1, 1)

RECURSIVE trimStart(_)
trimStart(s) == IF s # <<>> /\ IsSpace(Head(s)) THEN trimStart(Tail(s)) ELSE s

RECURSIVE trimEnd(_)
trimEnd(s) ==
    IF s # <<>> /\ IsSpace(s[Len(s)]) THEN trimEnd(SubSeq(s, 1, Len(s) - 1)) ELSE s

trim(s) == trimEnd(trimStart(s))

\* .filter((s) => s.trim().length > 0)
nonBlank(pieces) == SelectSeq(pieces, LAMBDA x : Len(trim(x)) > 0)

\* The sentences of a text, as lines 86 and 197 compute them.
sentencesOf(s) == nonBlank(splitSentences(s))

\* pieces.join(" ")
RECURSIVE join(_)
join(pieces) ==
    IF pieces = <<>> THEN <<>>
    ELSE IF Len(pieces) = 1 THEN pieces[1]
    ELSE pieces[1] \o <<" ">> \o join(Tail(pieces))

\* A faulty variant: Math.floor in place of Math.ceil.
floorHalf(n) == n \div 2

\* Math.ceil(n / 2)
ceilHalf(n) == (n + 1) \div 2

\* s.substring(a, b) and s.substring(a), with 0-based indices
substring(s, a, b) ==
    LET lo == Max(0, Min(Min(a, b), Len(s)))
        hi == Max(0, Min(Max(a, b), Len(s)))
    IN  SubSeq(s, lo + 1, hi)

substringFrom(s, a) == substring(s, a, Len(s))

\* s.indexOf('. ', from), 0-based, -1 when there is none
indexOfPeriodSpace(s, from) ==
    LET found == {i \in from..(Len(s) - 2) : s[i + 1] = "." /\ s[i + 2] = " "}
    IN  IF found = {} THEN -1 ELSE least(found)

\* The match.index values of /(?<=[.!?])\s+(?=[A-Z])/g over the text,
\* 0-based (lines 134-147); i is the 1-based position looked at.
beforeUpper(s, k) == spaceRunEnd(s, k) < Len(s) /\ IsUpper(s[spaceRunEnd(s, k) + 1])

RECURSIVE sentenceEndingsFrom(_, _)
sentenceEndingsFrom(s, i) ==
    LET matches == {k \in afterPunct(s, i) : beforeUpper(s, k)}
    IN  IF matches = {} THEN <<>>
        ELSE LET k == least(matches)
             IN  <<k - 1>> \o sentenceEndingsFrom(s, spaceRunEnd(s, k) + 1)

(***************************************************************************)
(* JSON values, as JSON.parse returns them.  An object is the sequence of  *)
(* its entries, in the order of Object.entries.                            *)
(***************************************************************************)
JNull == [kind |-> "null"]

JUndefined == [kind |-> "undefined"]

JNumber(n) == [kind |-> "number", n |-> n]

JStr(s) == [kind |-> "string", s |-> s]

JArr(items) == [kind |-> "array", items |-> items]

JObj(entries) == [kind |-> "object", entries |-> entries]

Entry(k, v) == [key |-> k, val |-> v]

EmptyList == JArr(<<>>)

hasKey(v, k) == v.kind = "object" /\ \E i \in 1..Len(v.entries) : v.entries[i].key = k

\* v[k] for a value that is neither null nor undefined
getProp(v, k) ==
    IF hasKey(v, k)
    THEN v.entries[CHOOSE i \in 1..Len(v.entries) : v.entries[i].key = k].val
    ELSE JUndefined

\* Reading a property of null or undefined throws a TypeError.
throwsOnGet(v) == v.kind \in {"null", "undefined"}

truthy(v) ==
    CASE v.kind \in {"null", "undefined"} -> FALSE
      [] v.kind = "number" -> v.n # 0
      [] v.kind = "string" -> v.s # <<>>
      [] OTHER -> TRUE

isArray(v) == v.kind = "array"

\* a || b
orElse(a, b) == IF truthy(a) THEN a ELSE b

\* A speaker segment {speaker, text}.
Seg(speaker, text) == JObj(<<Entry("speaker", speaker), Entry("text", text)>>)

Segment(label, text) == Seg(JStr(<<label>>), JStr(text))

(***************************************************************************)
(* identifySpeakers (server/diarization.ts).  A block of code either       *)
(* returns a value or throws.                                              *)
(***************************************************************************)
Thrown == [threw |-> TRUE, value |-> <<>>]

Returned(v) == [threw |-> FALSE, value |-> v]

\* Lines 84-96: the reply is an array.
arrayBranch(items) ==
    IF Len(items) = 1
    THEN LET first == items[1]
             text == getProp(first, "text")
         IN  IF throwsOnGet(first) \/ text.kind # "string"
             THEN Thrown
             ELSE LET segments == sentencesOf(text.s)
                      half == ceilHalf(Len(segments))
                  IN  IF Len(segments) > 1
                      THEN Returned(<<
                             Segment("Speaker 1", join(SubSeq(segments, 1, half))),
                             Segment("Speaker 2",
                                     join(SubSeq(segments, half + 1, Len(segments))))>>)
                      ELSE Returned(items)
    ELSE Returned(items)

\* key.toLowerCase().includes('speaker'), over the keys of the replies
ObjectKeys == {"segments", "speakers", "speaker", "text", "speaker1", "Speaker 2",
               "result"}

includesSpeaker(key) == key \in {"speakers", "speaker", "speaker1", "Speaker 2"}

\* Lines 106-119: the entries of the object read as speaker segments.
entrySegment(result, e) ==
    IF e.key = "speaker" /\ hasKey(result, "text")
    THEN Seg(e.val, getProp(result, "text"))
    ELSE IF includesSpeaker(e.key) /\ e.val.kind = "string"
    THEN Seg(JStr(<<e.key>>), e.val)
    ELSE JNull

entrySegments(result) ==
    SelectSeq([i \in 1..Len(result.entries) |-> entrySegment(result, result.entries[i])],
              LAMBDA x : truthy(x))

\* Lines 126-173: a single long segment is cut in three at sentence endings.
\* Returns the three segments, or <<>> when the segment is left alone.
threeWaySplit(segment) ==
    LET text == getProp(segment, "text")
    IN  IF text.kind = "string" /\ Len(text.s) > 200
        THEN LET sentenceEndings == sentenceEndingsFrom(text.s, 1)
                 n == Len(sentenceEndings)
                 firstSpeaker == orElse(getProp(segment, "speaker"), JStr(<<"Speaker 1">>))
                 secondSpeaker ==
                     IF firstSpeaker.kind = "string" /\ firstSpeaker.s = <<"Interviewer">>
                     THEN JStr(<<"Interviewee">>) ELSE JStr(<<"Speaker 2">>)
                 firstBreakPoint == sentenceEndings[(n \div 3) + 1]
                 secondBreakPoint == sentenceEndings[((n * 2) \div 3) + 1]
             IN  IF n > 0
                 THEN << Seg(firstSpeaker,
                             JStr(trim(substring(text.s, 0, firstBreakPoint + 1)))),
                         Seg(secondSpeaker,
                             JStr(trim(substring(text.s, firstBreakPoint + 1,
                                                 secondBreakPoint + 1)))),
                         Seg(firstSpeaker,
                             JStr(trim(substringFrom(text.s, secondBreakPoint + 1)))) >>
                 ELSE <<>>
        ELSE <<>>

\* A faulty variant: the second half starts one character after the cut.
midpointSplitSkip(transcriptText) ==
    LET midPoint == Len(transcriptText) \div 2
        found == indexOfPeriodSpace(transcriptText, midPoint)
        splitIndex == IF found = -1 \/ found > midPoint + 200 THEN midPoint ELSE found + 2
    IN  << Segment("Speaker 1", trim(substring(transcriptText, 0, splitIndex))),
           Segment("Speaker 2", trim(substringFrom(transcriptText, splitIndex + 1))) >>

\* Lines 180-192: two generic speakers, cut near the middle of the transcript.
midpointSplit(transcriptText) ==
    LET midPoint == Len(transcriptText) \div 2
        found == indexOfPeriodSpace(transcriptText, midPoint)
        splitIndex == IF found = -1 \/ found > midPoint + 200 THEN midPoint ELSE found + 2
    IN  << Segment("Speaker 1", trim(substring(transcriptText, 0, splitIndex))),
           Segment("Speaker 2", trim(substringFrom(transcriptText, splitIndex))) >>

\* s.includes(phrase) for the phrases of lines 215-222, each of them one
\* character of the model; s.endsWith('?')
includes(s, phrase) == \E i \in 1..Len(s) : s[i] = phrase

endsWith(s, c) == s # <<>> /\ s[Len(s)] = c

\* Lines 214-225: the speaker changes between sentences i-1 and i.
speakerChange(prevSentence, currSentence) ==
    \/ endsWith(prevSentence, "?")
    \/ includes(prevSentence, "thank you")
    \/ includes(prevSentence, "could you")
    \/ includes(prevSentence, "what do you think")
    \/ includes(currSentence, "yeah")
    \/ includes(currSentence, "okay")
    \/ includes(currSentence, "so,")
    \/ includes(currSentence, "well,")

\* A faulty variant: the walk never goes back to the first speaker.
otherSpeakerStuck(currentSpeaker) == "Speaker 2"

otherSpeaker(currentSpeaker) ==
    IF currentSpeaker = "Speaker 1" THEN "Speaker 2" ELSE "Speaker 1"

\* Lines 208-236: the walk over the sentences from index i (1-based here).
RECURSIVE sentenceWalk(_, _, _, _)
sentenceWalk(sentences, i, currentSpeaker, currentText) ==
    IF i > Len(sentences) THEN <<Segment(currentSpeaker, currentText)>>
    ELSE IF speakerChange(sentences[i - 1], sentences[i])
         THEN <<Segment(currentSpeaker, currentText)>>
              \o sentenceWalk(sentences, i + 1, otherSpeaker(currentSpeaker), sentences[i])
         ELSE sentenceWalk(sentences, i + 1, currentSpeaker,
                           currentText \o <<" ">> \o sentences[i])

\* A faulty variant: with no segments extracted, the sentences of the
\* transcript are walked as in the catch block of the parse.
unexpectedFormatWalk(transcriptText, result) ==
    IF result.kind = "object" /\ entrySegments(result) # <<>>
    THEN LET segments == entrySegments(result)
         IN  IF Len(segments) = 1 /\ threeWaySplit(segments[1]) # <<>>
             THEN threeWaySplit(segments[1])
             ELSE segments
    ELSE LET sentences == sentencesOf(transcriptText)
         IN  IF Len(sentences) <= 2
             THEN <<Segment("Speaker 1", transcriptText)>>
             ELSE sentenceWalk(sentences, 2, "Speaker 1", sentences[1])

\* Lines 101-193: the reply is neither an array nor an object with a
\* `segments` or `speakers` array.
unexpectedFormat(transcriptText, result) ==
    IF result.kind = "object" /\ entrySegments(result) # <<>>
    THEN LET segments == entrySegments(result)
         IN  IF Len(segments) = 1 /\ threeWaySplit(segments[1]) # <<>>
             THEN threeWaySplit(segments[1])
             ELSE segments
    ELSE midpointSplit(transcriptText)

\* A faulty variant: `speakers` is looked at before `segments`.
parsedReplySpeakersFirst(transcriptText, result) ==
    IF isArray(result) THEN arrayBranch(result.items)
    ELSE IF throwsOnGet(result) THEN Thrown
    ELSE IF truthy(getProp(result, "speakers")) /\ isArray(getProp(result, "speakers"))
    THEN Returned(getProp(result, "speakers").items)
    ELSE IF truthy(getProp(result, "segments")) /\ isArray(getProp(result, "segments"))
    THEN Returned(getProp(result, "segments").items)
    ELSE Returned(unexpectedFormat(transcriptText, result))

\* Lines 78-193: the try block around JSON.parse, given the parsed value.
parsedReply(transcriptText, result) ==
    IF isArray(result) THEN arrayBranch(result.items)
    ELSE IF throwsOnGet(result) THEN Thrown
    ELSE IF truthy(getProp(result, "segments")) /\ isArray(getProp(result, "segments"))
    THEN Returned(getProp(result, "segments").items)
    ELSE IF truthy(getProp(result, "speakers")) /\ isArray(getProp(result, "speakers"))
    THEN Returned(getProp(result, "speakers").items)
    ELSE Returned(unexpectedFormat(transcriptText, result))

\* Lines 199-201: too few sentences to walk.
fewSentences(transcriptText) == <<Segment("Speaker 1", transcriptText)>>

\* A faulty variant: the walk starts at 2 sentences (sentences.length < 2).
parseFallbackFromTwo(transcriptText) ==
    LET sentences == sentencesOf(transcriptText)
    IN  IF Len(sentences) < 2
        THEN fewSentences(transcriptText)
        ELSE sentenceWalk(sentences, 2, "Speaker 1", sentences[1])

\* Lines 194-237: the catch block of the parse.
parseFallback(transcriptText) ==
    LET sentences == sentencesOf(transcriptText)
    IN  IF Len(sentences) <= 2
        THEN fewSentences(transcriptText)
        ELSE sentenceWalk(sentences, 2, "Speaker 1", sentences[1])

\* Lines 72-75 and 238-242: the single "Unknown" segment.
unknownSegment(transcriptText) == <<Segment("Unknown", transcriptText)>>

\* Lines 20-237: the body of the outer try, given what the external call did.
identifySpeakersTry(transcriptText, reply) ==
    CASE reply.kind \in {"throws", "noChoices"} -> Thrown
      [] reply.kind = "absent" -> Returned(unknownSegment(transcriptText))
      [] reply.kind = "unparsable" -> Returned(parseFallback(transcriptText))
      [] reply.kind = "json" ->
            LET r == parsedReply(transcriptText, reply.value)
            IN  IF r.threw THEN Returned(parseFallback(transcriptText)) ELSE r

\* How a promise settles.
Resolved(v) == [state |-> "resolved", value |-> v]

Rejected(e) == [state |-> "rejected", value |-> e]

Pending == [state |-> "pending", value |-> <<>>]

\* Lines 238-242: the outer catch.
identifySpeakersCatch(transcriptText, outcome) ==
    IF outcome.threw THEN Resolved(unknownSegment(transcriptText))
    ELSE Resolved(outcome.value)

identifySpeakers(transcriptText, reply) ==
    identifySpeakersCatch(transcriptText, identifySpeakersTry(transcriptText, reply))

(***************************************************************************)
(* generateSummary (server/summary.ts), given what the external call did.  *)
(***************************************************************************)
summaryOf(summaryContent) ==
    [keyPoints |-> orElse(getProp(summaryContent, "keyPoints"), EmptyList),
     topics |-> orElse(getProp(summaryContent, "topics"), EmptyList),
     actionItems |-> orElse(getProp(summaryContent, "actionItems"), EmptyList)]

\* A faulty variant: a reply that does not parse gives the defaulted summary.
generateSummaryDefaulting(reply) ==
    CASE reply.kind = "throws" -> Rejected(JsError(<<"Connection error.">>))
      [] reply.kind = "noChoices" ->
            Rejected(JsError(<<"Cannot read properties of undefined">>))
      [] reply.kind \in {"absent", "unparsable"} -> Resolved(summaryOf(JObj(<<>>)))
      [] reply.kind = "json" ->
            IF throwsOnGet(reply.value)
            THEN Rejected(JsError(<<"Cannot read properties of null">>))
            ELSE Resolved(summaryOf(reply.value))

\* Lines 16-53: one call of the external model; its failure and the failure
\* of JSON.parse both go through the catch block, which throws a new Error.
generateSummary(reply) ==
    CASE reply.kind = "throws" -> Rejected(JsError(<<"Connection error.">>))
      [] reply.kind = "noChoices" ->
            Rejected(JsError(<<"Cannot read properties of undefined">>))
      [] reply.kind = "absent" -> Resolved(summaryOf(JObj(<<>>)))
      [] reply.kind = "unparsable" -> Rejected(JsError(<<"Unexpected token">>))
      [] reply.kind = "json" ->
            IF throwsOnGet(reply.value)
            THEN Rejected(JsError(<<"Cannot read properties of null">>))
            ELSE Resolved(summaryOf(reply.value))

(***************************************************************************)
(* The transcripts and the replies of the external model that are tried.   *)
(***************************************************************************)
MaxLen == 5

Chars == {"a", ".", "?", " "}

Transcripts == UNION {[1..n -> Chars] : n \in 0..MaxLen}

Json(v) == [kind |-> "json", value |-> v]

NoReply == [kind |-> "none"]

FailedReplies == {[kind |-> "throws"], [kind |-> "noChoices"], [kind |-> "absent"],
                  [kind |-> "unparsable"]}

\* Replies to the diarization prompt for transcript t.
DiarizationValues(t) ==
    LET s1 == Segment("Speaker 1", t)
        s2 == Segment("Speaker 2", t)
        iv == Segment("Interviewer", t)
    IN  { JNull, JNumber(7), JStr(t),
          JArr(<<>>), JArr(<<s1>>), JArr(<<s1, s2>>), JArr(<<JNull>>),
          JArr(<<JObj(<<Entry("speaker", JStr(<<"Speaker 1">>))>>)>>),
          JArr(<<Seg(JStr(<<"Speaker 1">>), JNumber(7))>>),
          JObj(<<>>),
          JObj(<<Entry("segments", JArr(<<>>))>>),
          JObj(<<Entry("segments", JArr(<<s1, s2>>))>>),
          JObj(<<Entry("speakers", JArr(<<>>))>>),
          JObj(<<Entry("speakers", JArr(<<iv>>))>>),
          JObj(<<Entry("speakers", JArr(<<iv>>)), Entry("segments", JArr(<<s1, s2>>))>>),
          JObj(<<Entry("segments", JStr(t)), Entry("speakers", JArr(<<s2>>))>>),
          s1, iv,
          JObj(<<Entry("speaker", JNull), Entry("text", JStr(t))>>),
          JObj(<<Entry("speaker1", JStr(t))>>),
          JObj(<<Entry("speaker1", JStr(t)), Entry("Speaker 2", JStr(t))>>),
          JObj(<<Entry("speakers", JStr(t))>>),
          JObj(<<Entry("result", JStr(t))>>) }

DiarizationReplies(t) == FailedReplies \cup {Json(v) : v \in DiarizationValues(t)}

\* Replies to the summary prompt.
SummaryKeys == {"keyPoints", "topics", "actionItems"}

SomeList == JArr(<<JStr(<<"a">>)>>)

RECURSIVE entriesOf(_, _)
entriesOf(keys, v) ==
    IF keys = {} THEN <<>>
    ELSE LET k == CHOOSE x \in keys : TRUE
         IN  <<Entry(k, v)>> \o entriesOf(keys \ {k}, v)

SummaryValues ==
    { JNull, JNumber(7), JStr(<<"a">>), JArr(<<>>), JArr(<<SomeList>>) }
    \cup { JObj(entriesOf(ks, SomeList)) : ks \in SUBSET SummaryKeys }
    \cup { JObj(<<Entry("keyPoints", JNull), Entry("topics", JNumber(0)),
                  Entry("actionItems", JStr(<<>>))>>),
           JObj(<<Entry("keyPoints", JStr(<<"a">>)), Entry("topics", SomeList)>>) }

SummaryReplies == FailedReplies \cup {Json(v) : v \in SummaryValues}

VARIABLES
    variant,        \* which routes.ts is deployed
    fs,             \* scratch storage: path -> size, or NoFile
    pc,             \* per request: where its handler is
    file,           \* per request: req.file (mimetype, size), or NoUpload
    audioPath,      \* per request: the handler's audioPath
    wasCompressed,  \* per request: the handler's wasCompressed
    res,            \* per request: the response sent, or NoResponse
    sent,           \* per request: number of responses sent
    unlinks,        \* fs.unlink calls issued and not yet carried out
    created,        \* per request: scratch paths written for it
    compression,    \* per request: the encoder run and what the compressor did
    sttCalls,       \* per request: sizes of the files handed to the service
    sttResult,      \* per request: what the service answered
    part,           \* per request: the file part the client sent
    uniqueSuffix,   \* per request: the name generated for its upload, or 0
    content,        \* scratch storage: path -> the request whose audio it holds
    heard,          \* per request: whose audio the service was given, or 0
    fn,             \* the exported function a caller has invoked directly
    lpc,            \* where that invocation is: idle, awaiting, settled
    transcriptText, \* its argument, for identifySpeakers and generateSummary
    audioFilePath,  \* its argument, for transcribeAudio
    reply,          \* what the external service answered to it
    settled,        \* how its promise settled
    extCalls,       \* the calls it made to the external service
    dropped,        \* the file the user selected or dropped in the page
    selectedFile,   \* the page's selectedFile
    fileError,      \* the page's fileError
    step,           \* the page's step: 1 upload, 2 transcribing, 3 results
    transcriptionText,      \* useTranscription: transcriptionText
    transcriptionError,     \* useTranscription: transcriptionError
    transcriptionProgress,  \* useTranscription: transcriptionProgress, in 1/100 %
    wasCompressedState,     \* useTranscription: wasCompressed
    mutations,      \* per transcription started: the request and its answer
    intervals       \* per transcription started: its progress timer is running

hvars == <<variant, fs, pc, file, audioPath, wasCompressed, res, sent, unlinks,
           created, compression, sttCalls, sttResult, part, uniqueSuffix,
           content, heard>>

lvars == <<fn, lpc, transcriptText, audioFilePath, reply, settled, extCalls>>

cvars == <<dropped, selectedFile, fileError>>

uvars == <<step, transcriptionText, transcriptionError, transcriptionProgress,
           wasCompressedState, mutations, intervals>>

vars == <<hvars, lvars, cvars, uvars>>

NoUpload == [present |-> FALSE, mimetype |-> "", size |-> 0]

NoCompression ==
    [runs |-> 0, run |-> [exit |-> "fail", out |-> NoFile], threw |-> FALSE,
     path |-> NoPath, originalExists |-> FALSE]

NoResult == [done |-> FALSE, outcome |-> [ok |-> FALSE, textIsString |-> FALSE,
                                          error |-> JsError(<<>>)]]

NoPart == [present |-> FALSE, mimetype |-> "", size |-> 0]

\* No File object: undefined, or the page's selectedFile = null.
NoFileSelected == [present |-> FALSE, type |-> "", size |-> 0]

\* req.file.path
filePath(r) == filename(uniqueSuffix[r])

InitHandler ==
    /\ variant \in Variants
    /\ fs = [p \in Paths |-> NoFile]
    /\ pc = [r \in AllReqs |-> "new"]
    /\ file = [r \in AllReqs |-> NoUpload]
    /\ audioPath = [r \in AllReqs |-> NoPath]
    /\ wasCompressed = [r \in AllReqs |-> FALSE]
    /\ res = [r \in AllReqs |-> NoResponse]
    /\ sent = [r \in AllReqs |-> 0]
    /\ unlinks = {}
    /\ created = [r \in AllReqs |-> {}]
    /\ compression = [r \in AllReqs |-> NoCompression]
    /\ sttCalls = [r \in AllReqs |-> <<>>]
    /\ sttResult = [r \in AllReqs |-> NoResult]
    /\ part = [r \in AllReqs |-> NoPart]
    /\ uniqueSuffix = [r \in AllReqs |-> 0]
    /\ content = [p \in Paths |-> 0]
    /\ heard = [r \in AllReqs |-> 0]

InitLib ==
    /\ fn = "none"
    /\ lpc = "idle"
    /\ transcriptText = <<>>
    /\ audioFilePath = NoPath
    /\ reply = NoReply
    /\ settled = Pending
    /\ extCalls = 0

\* The upload page before a file is chosen.
\* The transcriptions one page session starts.
MaxTranscriptions == 2

Transcriptions == 1..MaxTranscriptions

NoMutation == [status |-> "none", file |-> NoFileSelected, outcome |-> "none"]

\* About.tsx, lines 118-120, and useTranscription.ts, lines 12-15: the
\* initial values of useState.
InitClient ==
    /\ dropped = NoFileSelected
    /\ selectedFile = NoFileSelected
    /\ fileError = <<>>
    /\ step = 1
    /\ transcriptionText = <<>>
    /\ transcriptionError = <<>>
    /\ transcriptionProgress = 0
    /\ wasCompressedState = FALSE
    /\ mutations = [i \in Transcriptions |-> NoMutation]
    /\ intervals = [i \in Transcriptions |-> FALSE]

Init == InitHandler /\ InitLib /\ InitClient

(***************************************************************************)
(* compressAudioFile (lines 69-100), from the return of the encoder on:    *)
(* the output check, the deletion of the original and the returned path.   *)
(* `run` is what the encoder did.                                          *)
(***************************************************************************)
encoderWrites(fsys, outputPath, run) ==
    IF run.out # NoFile THEN [fsys EXCEPT ![outputPath] = run.out] ELSE fsys

\* Line 87, negated: the output file exists and has content.
outputUsable(fsys, outputPath) ==
    existsSync(fsys, outputPath) /\ statSize(fsys, outputPath) # 0

\* A faulty variant: the original is deleted before the output is checked.
compressAudioFileTryUnlinkFirst(fsys, inputPath, run) ==
    LET outputPath == outputPathOf(inputPath)
        written == unlinkFile(encoderWrites(fsys, outputPath, run), inputPath)
    IN  IF run.exit = "ok" /\ outputUsable(written, outputPath)
        THEN [threw |-> FALSE, fs |-> written, path |-> outputPath]
        ELSE [threw |-> TRUE, fs |-> written, path |-> NoPath]

\* Lines 73-94: the try block.  execAsync rejects when the encoder fails,
\* line 88 throws on a missing or empty output, and fs.unlinkSync throws
\* when the input is no longer there.
compressAudioFileTry(fsys, inputPath, run) ==
    LET outputPath == outputPathOf(inputPath)
        written == encoderWrites(fsys, outputPath, run)
    IN  IF /\ run.exit = "ok"
           /\ outputUsable(written, outputPath)
           /\ existsSync(written, inputPath)
        THEN [threw |-> FALSE, fs |-> unlinkFile(written, inputPath), path |-> outputPath]
        ELSE [threw |-> TRUE, fs |-> written, path |-> NoPath]

\* A faulty variant: the error of the try block is not caught.
compressAudioFileNoCatch(inputPath, outcome) == outcome

\* Lines 95-99: the catch block.
compressAudioFileCatch(inputPath, outcome) ==
    IF outcome.threw
    THEN [threw |-> FALSE, fs |-> outcome.fs, path |-> inputPath]
    ELSE outcome

compressAudioFile(fsys, inputPath, run) ==
    compressAudioFileCatch(inputPath, compressAudioFileTry(fsys, inputPath, run))

\* Line 81: the encoder is run without -y, so it leaves an output file
\* only where there was none.
encoderCanLeave(fsys, inputPath, run) ==
    existsSync(fsys, outputPathOf(inputPath))
        => run = [exit |-> "fail", out |-> NoFile]

\* Whose audio each file holds after compressAudioFile: the output holds
\* the audio of the input, and a deleted input holds none.
contentAfterCompression(cont, inputPath, run, returned) ==
    LET outputPath == outputPathOf(inputPath)
        written == IF run.out # NoFile
                   THEN [cont EXCEPT ![outputPath] = cont[inputPath]] ELSE cont
    IN  IF returned # inputPath THEN [written EXCEPT ![inputPath] = 0] ELSE written

\* fs.statSync throws on a path with no file.
statThrows(fsys, p) == ~existsSync(fsys, p)

Enoent == JsError(<<"ENOENT: no such file or directory, stat">>)

\* A faulty variant: wasCompressed is never set.
pathChangedNever(ap, fp) == FALSE

\* Line 162: wasCompressed = (audioPath !== filePath)
pathChanged(ap, fp) == ap # fp

\* Line 159: the upload is above the limit of the service.
needsCompression(fileSize) == fileSize > maxWhisperFileSize

\* A faulty variant: the size after compression is not checked.
stillTooLargeNever(newSize) == FALSE

\* A faulty variant: the size after compression is compared with the upload limit.
stillTooLargeForUpload(newSize) == newSize > fileSizeLimit("compress")

\* Line 169: the file is still above it after the compression.
stillTooLarge(newSize) == newSize > maxWhisperFileSize

(***************************************************************************)
(* The cleanup of the handler: the fs.unlink calls it issues.  The         *)
(* compression variant does it in its finally block (lines 187-201), the   *)
(* simple one before the response and in its catch block.                  *)
(***************************************************************************)
cleanup(v, fsys, r, ap, wc) ==
    IF v = "compress"
    THEN (IF existsSync(fsys, ap) THEN {ap} ELSE {})
         \cup (IF wc /\ existsSync(fsys, filePath(r)) THEN {filePath(r)} ELSE {})
    ELSE {filePath(r)}

\* The handler ends: the response is sent and the unlinks are issued.
\* A faulty variant: after the answer is sent the handler goes on to the outer
\* catch, which answers again.
FinishTwice(r, fsys, ap, wc, response) ==
    /\ res' = [res EXCEPT ![r] = ErrorResponse(500, <<"Failed to transcribe audio">>)]
    /\ sent' = [sent EXCEPT ![r] = @ + 2]
    /\ unlinks' = unlinks \cup cleanup(variant, fsys, r, ap, wc)
    /\ pc' = [pc EXCEPT ![r] = "responded"]
    /\ audioPath' = [audioPath EXCEPT ![r] = ap]
    /\ wasCompressed' = [wasCompressed EXCEPT ![r] = wc]
    /\ fs' = fsys
    /\ UNCHANGED heard

Finish(r, fsys, ap, wc, response) ==
    /\ res' = [res EXCEPT ![r] = response]
    /\ sent' = [sent EXCEPT ![r] = @ + 1]
    /\ unlinks' = unlinks \cup cleanup(variant, fsys, r, ap, wc)
    /\ pc' = [pc EXCEPT ![r] = "responded"]
    /\ audioPath' = [audioPath EXCEPT ![r] = ap]
    /\ wasCompressed' = [wasCompressed EXCEPT ![r] = wc]
    /\ fs' = fsys
    /\ UNCHANGED heard

\* A faulty variant: the existence check is left out.
audioFileMissingUnchecked(fsys, path) == FALSE

\* transcribeAudio, line 16: the precondition on the path.
audioFileMissing(fsys, path) == ~existsSync(fsys, path)

\* A faulty variant: the deletion of the file is issued together with the
\* request to the service.
startTranscribeAudioUnlinkEarly(r, fsys, ap, wc) ==
    /\ pc' = [pc EXCEPT ![r] = "whisper"]
    /\ sttCalls' = [sttCalls EXCEPT ![r] = Append(@, statSize(fsys, ap))]
    /\ heard' = [heard EXCEPT ![r] = content'[ap]]
    /\ audioPath' = [audioPath EXCEPT ![r] = ap]
    /\ wasCompressed' = [wasCompressed EXCEPT ![r] = wc]
    /\ fs' = fsys
    /\ unlinks' = unlinks \cup {ap}
    /\ UNCHANGED <<res, sent>>

\* The handler calls transcribeAudio(ap): the file is missing and the call
\* fails at once, or the request to the external service goes out.
startTranscribeAudio(r, fsys, ap, wc) ==
    IF audioFileMissing(fsys, ap)
    THEN /\ Finish(r, fsys, ap, wc, handlerCatch(AudioFileNotFound))
         /\ UNCHANGED sttCalls
    ELSE /\ pc' = [pc EXCEPT ![r] = "whisper"]
         /\ sttCalls' = [sttCalls EXCEPT ![r] = Append(@, statSize(fsys, ap))]
         /\ heard' = [heard EXCEPT ![r] = content'[ap]]
         /\ audioPath' = [audioPath EXCEPT ![r] = ap]
         /\ wasCompressed' = [wasCompressed EXCEPT ![r] = wc]
         /\ fs' = fsys
         /\ UNCHANGED <<res, sent, unlinks>>

(***************************************************************************)
(* upload.single("file"): multer takes the request in.  A request without  *)
(* a file part reaches the handler with no req.file; a file the fileFilter *)
(* or the size limit refuses never reaches it and leaves nothing stored;   *)
(* an accepted one is written under its generated name.                    *)
(***************************************************************************)
UploadNoFile(r) ==
    /\ pc[r] = "new"
    /\ pc' = [pc EXCEPT ![r] = "handler"]
    /\ UNCHANGED <<variant, fs, file, audioPath, wasCompressed, res, sent,
                   unlinks, created, compression, sttCalls, sttResult>>
    /\ UNCHANGED <<part, uniqueSuffix, content, heard>>
    /\ UNCHANGED <<lvars, cvars, uvars>>

Upload(r, suffix, mimetype, size) ==
    /\ pc[r] = "new"
    /\ part' = [part EXCEPT ![r] = [present |-> TRUE,
                                    mimetype |-> mimetype, size |-> size]]
    /\ IF mimetype \in allowedMimes /\ size <= fileSizeLimit(variant)
       THEN /\ fs' = [fs EXCEPT ![filename(suffix)] = size]
            /\ content' = [content EXCEPT ![filename(suffix)] = r]
            /\ uniqueSuffix' = [uniqueSuffix EXCEPT ![r] = suffix]
            /\ file' = [file EXCEPT ![r] = [present |-> TRUE,
                                            mimetype |-> mimetype, size |-> size]]
            /\ created' = [created EXCEPT ![r] = {filename(suffix)}]
            /\ pc' = [pc EXCEPT ![r] = "handler"]
       ELSE /\ pc' = [pc EXCEPT ![r] = "rejected"]
            /\ UNCHANGED <<fs, content, uniqueSuffix, file, created>>
    /\ UNCHANGED <<variant, audioPath, wasCompressed, res, sent, unlinks,
                   compression, sttCalls, sttResult, heard>>
    /\ UNCHANGED <<lvars, cvars, uvars>>

(***************************************************************************)
(* The handler, from its start to its first await.                         *)
(***************************************************************************)
\* A faulty variant: req.file is used without the check of line 143, and
\* the TypeError of req.file.path goes to the outer catch.
HandleNoFileUnchecked(r) ==
    /\ pc[r] = "handler"
    /\ ~file[r].present
    /\ res' = [res EXCEPT ![r] = handlerCatch(JsError(
                   <<"Cannot read properties of undefined (reading 'path')">>))]
    /\ sent' = [sent EXCEPT ![r] = @ + 1]
    /\ pc' = [pc EXCEPT ![r] = "responded"]
    /\ UNCHANGED <<variant, fs, file, audioPath, wasCompressed, unlinks,
                   created, compression, sttCalls, sttResult>>
    /\ UNCHANGED <<part, uniqueSuffix, content, heard>>
    /\ UNCHANGED <<lvars, cvars, uvars>>

\* Lines 143-145.
HandleNoFile(r) ==
    /\ pc[r] = "handler"
    /\ ~file[r].present
    /\ res' = [res EXCEPT ![r] = ErrorResponse(400, <<"No audio file provided">>)]
    /\ sent' = [sent EXCEPT ![r] = @ + 1]
    /\ pc' = [pc EXCEPT ![r] = "responded"]
    /\ UNCHANGED <<variant, fs, file, audioPath, wasCompressed, unlinks,
                   created, compression, sttCalls, sttResult>>
    /\ UNCHANGED <<part, uniqueSuffix, content, heard>>
    /\ UNCHANGED <<lvars, cvars, uvars>>

\* Lines 155-161: the upload is too large for the service; the encoder is
\* started.
HandleCompress(r) ==
    /\ pc[r] = "handler"
    /\ file[r].present
    /\ variant = "compress"
    /\ needsCompression(statSize(fs, filePath(r)))
    /\ pc' = [pc EXCEPT ![r] = "ffmpeg"]
    /\ compression' = [compression EXCEPT ![r].runs = @ + 1]
    /\ audioPath' = [audioPath EXCEPT ![r] = filePath(r)]
    /\ UNCHANGED <<variant, fs, file, wasCompressed, res, sent, unlinks,
                   created, sttCalls, sttResult>>
    /\ UNCHANGED <<part, uniqueSuffix, content, heard>>
    /\ UNCHANGED <<lvars, cvars, uvars>>

\* Line 175 of the compression variant when no compression is needed (or
\* the end of the handler when line 155 throws), and line 60 of the simple
\* variant.
HandleTranscribe(r) ==
    /\ pc[r] = "handler"
    /\ file[r].present
    /\ variant = "compress" => ~needsCompression(statSize(fs, filePath(r)))
    /\ UNCHANGED <<variant, file, created, compression, sttResult>>
    /\ UNCHANGED <<part, uniqueSuffix, content>>
    /\ IF variant = "compress" /\ statThrows(fs, filePath(r))
       THEN /\ Finish(r, fs, filePath(r), FALSE, handlerCatch(Enoent))
            /\ UNCHANGED sttCalls
       ELSE startTranscribeAudio(r, fs, filePath(r), FALSE)
    /\ UNCHANGED <<lvars, cvars, uvars>>

(***************************************************************************)
(* The encoder returns: the rest of compressAudioFile, then the handler up *)
(* to its next await (lines 162-175) or to its end.                        *)
(***************************************************************************)
FfmpegDone(r, run) ==
    /\ pc[r] = "ffmpeg"
    /\ encoderCanLeave(fs, filePath(r), run)
    /\ LET c == compressAudioFile(fs, filePath(r), run)
           wc == pathChanged(c.path, filePath(r))
       IN  /\ content' = contentAfterCompression(content, filePath(r), run, c.path)
           /\ created' = [created EXCEPT ![r] =
                             @ \cup (IF run.out # NoFile
                                     THEN {outputPathOf(filePath(r))} ELSE {})]
           /\ compression' = [compression EXCEPT ![r] =
                                 [runs |-> @.runs, run |-> run, threw |-> c.threw,
                                  path |-> c.path,
                                  originalExists |-> existsSync(c.fs, filePath(r))]]
           /\ IF c.threw
              THEN /\ Finish(r, c.fs, filePath(r), FALSE, handlerCatch(
                                JsError(<<"Failed to compress audio">>)))
                   /\ UNCHANGED sttCalls
              ELSE IF statThrows(c.fs, c.path)
              THEN /\ Finish(r, c.fs, c.path, wc, handlerCatch(Enoent))
                   /\ UNCHANGED sttCalls
              ELSE IF stillTooLarge(statSize(c.fs, c.path))
              THEN /\ Finish(r, c.fs, c.path, wc, handlerCatch(
                                JsError(<<"File still too large after compression">>)))
                   /\ UNCHANGED sttCalls
              ELSE startTranscribeAudio(r, c.fs, c.path, wc)
    /\ UNCHANGED <<variant, file, sttResult, part, uniqueSuffix>>
    /\ UNCHANGED <<lvars, cvars, uvars>>

(***************************************************************************)
(* The external speech-to-text call returns or throws: the rest of         *)
(* transcribeAudio, the validation of the response, the response and the   *)
(* cleanup.                                                                *)
(***************************************************************************)
\* A faulty variant: a failed call of the service is made a second time.
WhisperDoneRetry(r, outcome) ==
    /\ pc[r] = "whisper"
    /\ sttResult' = [sttResult EXCEPT ![r] = [done |-> TRUE, outcome |-> outcome]]
    /\ IF ~outcome.ok /\ Len(sttCalls[r]) < 2
       THEN /\ sttCalls' = [sttCalls EXCEPT ![r] = Append(@, statSize(fs, audioPath[r]))]
            /\ UNCHANGED <<pc, res, sent, unlinks, audioPath, wasCompressed, fs, heard>>
       ELSE /\ Finish(r, fs, audioPath[r], wasCompressed[r],
                      IF outcome.ok /\ outcome.textIsString
                      THEN OkResponse(wasCompressed[r])
                      ELSE handlerCatch(ZodError))
            /\ UNCHANGED sttCalls
    /\ UNCHANGED <<variant, file, created, compression>>
    /\ UNCHANGED <<part, uniqueSuffix, content>>
    /\ UNCHANGED <<lvars, cvars, uvars>>

WhisperDone(r, outcome) ==
    /\ pc[r] = "whisper"
    /\ sttResult' = [sttResult EXCEPT ![r] = [done |-> TRUE, outcome |-> outcome]]
    /\ Finish(r, fs, audioPath[r], wasCompressed[r],
              IF outcome.ok
              THEN IF outcome.textIsString
                   THEN OkResponse(wasCompressed[r])
                   ELSE handlerCatch(ZodError)
              ELSE handlerCatch(transcribeAudioCatch(outcome.error)))
    /\ UNCHANGED <<variant, file, created, compression, sttCalls>>
    /\ UNCHANGED <<part, uniqueSuffix, content>>
    /\ UNCHANGED <<lvars, cvars, uvars>>

\* An issued fs.unlink is carried out.
UnlinkDone(p) ==
    /\ p \in unlinks
    /\ unlinks' = unlinks \ {p}
    /\ fs' = unlinkFile(fs, p)
    /\ content' = [content EXCEPT ![p] = 0]
    /\ UNCHANGED <<variant, pc, file, audioPath, wasCompressed, res, sent,
                   created, compression, sttCalls, sttResult>>
    /\ UNCHANGED <<part, uniqueSuffix, heard>>
    /\ UNCHANGED <<lvars, cvars, uvars>>

Next ==
    \/ \E r \in Reqs : UploadNoFile(r)
    \/ \E r \in Reqs, m \in Mimes, s \in UploadSizes : Upload(r, freshSuffix(r), m, s)
    \/ \E r \in Reqs : HandleNoFile(r)
    \/ \E r \in Reqs : HandleCompress(r)
    \/ \E r \in Reqs : HandleTranscribe(r)
    \/ \E r \in Reqs, run \in EncoderRuns : FfmpegDone(r, run)
    \/ \E r \in Reqs, o \in ServiceOutcomes : WhisperDone(r, o)
    \/ \E p \in Paths : UnlinkDone(p)

Spec == Init /\ [][Next]_vars

(***************************************************************************)
(* The exported functions called directly: one invocation, the answer of   *)
(* the external service, and how the promise settles.                      *)
(***************************************************************************)
InvokeIdentifySpeakers(t) ==
    /\ lpc = "idle"
    /\ fn' = "identifySpeakers"
    /\ transcriptText' = t
    /\ extCalls' = extCalls + 1
    /\ lpc' = "awaiting"
    /\ UNCHANGED <<audioFilePath, reply, settled>>
    /\ UNCHANGED <<hvars, cvars, uvars>>

IdentifySpeakersSettle(rep) ==
    /\ lpc = "awaiting"
    /\ fn = "identifySpeakers"
    /\ reply' = rep
    /\ settled' = identifySpeakers(transcriptText, rep)
    /\ lpc' = "settled"
    /\ UNCHANGED <<fn, transcriptText, audioFilePath, extCalls>>
    /\ UNCHANGED <<hvars, cvars, uvars>>

InvokeGenerateSummary(t) ==
    /\ lpc = "idle"
    /\ fn' = "generateSummary"
    /\ transcriptText' = t
    /\ extCalls' = extCalls + 1
    /\ lpc' = "awaiting"
    /\ UNCHANGED <<audioFilePath, reply, settled>>
    /\ UNCHANGED <<hvars, cvars, uvars>>

GenerateSummarySettle(rep) ==
    /\ lpc = "awaiting"
    /\ fn = "generateSummary"
    /\ reply' = rep
    /\ settled' = generateSummary(rep)
    /\ lpc' = "settled"
    /\ UNCHANGED <<fn, transcriptText, audioFilePath, extCalls>>
    /\ UNCHANGED <<hvars, cvars, uvars>>

\* transcribeAudio, lines 14-27: the existence check, then the request.
InvokeTranscribeAudio(p) ==
    /\ lpc = "idle"
    /\ fn' = "transcribeAudio"
    /\ audioFilePath' = p
    /\ IF audioFileMissing(fs, p)
       THEN /\ settled' = Rejected(AudioFileNotFound)
            /\ lpc' = "settled"
            /\ UNCHANGED extCalls
       ELSE /\ extCalls' = extCalls + 1
            /\ lpc' = "awaiting"
            /\ UNCHANGED settled
    /\ UNCHANGED <<transcriptText, reply>>
    /\ UNCHANGED <<hvars, cvars, uvars>>

\* transcribeAudio, lines 29-45: the result, or the error of its catch block.
TranscribeAudioSettle(outcome) ==
    /\ lpc = "awaiting"
    /\ fn = "transcribeAudio"
    /\ reply' = [kind |-> IF outcome.ok THEN "transcription" ELSE "throws"]
    /\ settled' = IF outcome.ok
                  THEN Resolved([textIsString |-> outcome.textIsString])
                  ELSE Rejected(transcribeAudioCatch(outcome.error))
    /\ lpc' = "settled"
    /\ UNCHANGED <<fn, transcriptText, audioFilePath, extCalls>>
    /\ UNCHANGED <<hvars, cvars, uvars>>

(***************************************************************************)
(* The upload page (client/src/pages/About.tsx) and its validation         *)
(* (client/src/lib/fileUtils.ts).                                          *)
(***************************************************************************)
validTypes == {"audio/mpeg", "audio/wav", "audio/mp4", "audio/x-m4a"}

maxSize == 25 * MB

\* The File objects a user selects or drops.
ClientSizes == {0, 1, maxSize, maxSize + 1, 30 * MB, 100 * MB, 100 * MB + 1}

ClientFiles == [present : {TRUE}, type : validTypes \cup {"video/mp4", ""},
                size : ClientSizes]

\* fileUtils.ts, lines 16-30: the error message, or null.
validateAudioFile(f) ==
    IF f.type \notin validTypes
    THEN JStr(<<"Invalid file type. Please upload an MP3, WAV, or M4A file.">>)
    ELSE IF f.size > maxSize
    THEN JStr(<<"File size exceeds the 25MB limit.">>)
    ELSE JNull

\* About.tsx, lines 164-178: the state validateAndSetFile sets.
setFile(f) ==
    /\ dropped' = f
    /\ IF ~f.present
       THEN fileError' = <<>> /\ UNCHANGED selectedFile
       ELSE LET error == validateAudioFile(f)
            IN  IF truthy(error)
                THEN fileError' = error.s /\ UNCHANGED selectedFile
                ELSE fileError' = <<>> /\ selectedFile' = f

\* About.tsx, lines 164-178: handleFileSelect and handleFileDrop pass the
\* first file of the event, or undefined.
validateAndSetFile(f) ==
    /\ lpc = "idle"
    /\ fn' = "validateAndSetFile"
    /\ lpc' = "settled"
    /\ setFile(f)
    /\ UNCHANGED <<transcriptText, audioFilePath, reply, settled, extCalls>>
    /\ UNCHANGED <<hvars, uvars>>

(***************************************************************************)
(* The page (client/src/pages/About.tsx, TranscriptionTool) and its hook   *)
(* useTranscription.  Every event handler, timer callback and promise      *)
(* continuation runs to its end before the next one starts.  Progress is   *)
(* counted in hundredths of a percent, Math.random() in hundredths.        *)
(***************************************************************************)
Percent(n) == n * 100

Randoms == {0, 99}

UIFiles == {NoFileSelected,
            [present |-> TRUE, type |-> "audio/wav", size |-> 1],
            [present |-> TRUE, type |-> "video/mp4", size |-> 1],
            [present |-> TRUE, type |-> "audio/mpeg", size |-> maxSize + 1]}

\* What fetch and the reading of the body can give: a 200 answer without
\* and with wasCompressed, an answer that is not ok, a rejected fetch.
FetchOutcomes == {"ok", "okCompressed", "httpError", "networkError"}

\* Lines 152-162: a file is chosen or dropped in the upload step.
handleFileSelect(f) ==
    /\ step = 1
    /\ setFile(f)
    /\ UNCHANGED <<hvars, lvars, uvars>>

\* Lines 180-186.
removeFile ==
    /\ step = 1
    /\ selectedFile.present
    /\ selectedFile' = NoFileSelected
    /\ fileError' = <<>>
    /\ UNCHANGED dropped
    /\ UNCHANGED <<hvars, lvars, uvars>>

started == Cardinality({i \in Transcriptions : mutations[i].status # "none"})

\* A faulty variant: the file error is not looked at.
canStartDespiteError == selectedFile.present

\* Line 189, and the disabled attribute of the button (line 383).
canStart == selectedFile.present /\ fileError = <<>>

\* Lines 188-195 with transcribe (useTranscription.ts, lines 86-90), the
\* start of mutationFn (lines 19-29) and simulateProgress (lines 67-84).
startTranscription ==
    /\ step = 1
    /\ canStart
    /\ started < MaxTranscriptions
    /\ step' = 2
    /\ transcriptionText' = <<>>
    /\ transcriptionError' = <<>>
    /\ transcriptionProgress' = 0
    /\ intervals' = [intervals EXCEPT ![started + 1] = TRUE]
    /\ mutations' = [mutations EXCEPT ![started + 1] =
                        [status |-> "pending", file |-> selectedFile, outcome |-> "none"]]
    /\ UNCHANGED wasCompressedState
    /\ UNCHANGED <<hvars, lvars, cvars>>

\* Lines 245-249, offered when step > 1 (line 257).
resetApp ==
    /\ step > 1
    /\ step' = 1
    /\ selectedFile' = NoFileSelected
    /\ fileError' = <<>>
    /\ UNCHANGED <<dropped, transcriptionText, transcriptionError, transcriptionProgress,
                   wasCompressedState, mutations, intervals>>
    /\ UNCHANGED <<hvars, lvars>>

\* useTranscription.ts, lines 70-81: the callback of the interval of
\* transcription i, with rnd / 100 the value of Math.random().
intervalCallback(i, rnd) ==
    /\ intervals[i]
    /\ IF transcriptionProgress >= Percent(90)
       THEN /\ intervals' = [intervals EXCEPT ![i] = FALSE]
            /\ transcriptionProgress' = Percent(90)
       ELSE /\ transcriptionProgress' = transcriptionProgress
                   + (((Percent(100) - transcriptionProgress) \div 10) * rnd) \div 100
            /\ UNCHANGED intervals
    /\ UNCHANGED <<step, transcriptionText, transcriptionError, wasCompressedState,
                   mutations>>
    /\ UNCHANGED <<hvars, lvars, cvars>>

\* Lines 39-53 and About.tsx, lines 136-142: onSuccess.
onSuccess(outcome) ==
    /\ transcriptionText' = <<"a">>
    /\ wasCompressedState' = IF outcome = "okCompressed" THEN TRUE ELSE wasCompressedState
    /\ step' = 3
    /\ UNCHANGED transcriptionError

\* Lines 54-64 and About.tsx, lines 136-142: onError.
onError(outcome) ==
    /\ transcriptionError' = <<IF outcome = "httpError" THEN "errorData.message"
                                                        ELSE "Failed to fetch">>
    /\ step' = 3
    /\ UNCHANGED <<transcriptionText, wasCompressedState>>

\* Lines 26-37: the fetch of transcription i settles.  A rejected fetch
\* rejects the mutation; otherwise the body is still to be read.
fetchSettles(i, outcome) ==
    /\ mutations[i].status = "pending"
    /\ IF outcome = "networkError"
       THEN /\ mutations' = [mutations EXCEPT ![i].status = "done", ![i].outcome = outcome]
            /\ onError(outcome)
            /\ UNCHANGED transcriptionProgress
       ELSE /\ mutations' = [mutations EXCEPT ![i].status = "reading",
                                               ![i].outcome = outcome]
            /\ transcriptionProgress' =
                   IF outcome = "httpError" THEN transcriptionProgress ELSE Percent(100)
            /\ UNCHANGED <<step, transcriptionText, transcriptionError, wasCompressedState>>
    /\ UNCHANGED intervals
    /\ UNCHANGED <<hvars, lvars, cvars>>

\* Lines 32-33 and 37: response.json() of transcription i resolves and the
\* mutation settles.
mutationSettles(i) ==
    /\ mutations[i].status = "reading"
    /\ mutations' = [mutations EXCEPT ![i].status = "done"]
    /\ IF mutations[i].outcome = "httpError"
       THEN onError(mutations[i].outcome)
       ELSE onSuccess(mutations[i].outcome)
    /\ UNCHANGED <<transcriptionProgress, intervals>>
    /\ UNCHANGED <<hvars, lvars, cvars>>

\* A scratch directory with one stored upload, for the direct calls.
InitScratch ==
    /\ variant = "compress"
    /\ fs = [p \in Paths |-> IF p.prefix = 0 THEN 1000 ELSE NoFile]
    /\ pc = [r \in AllReqs |-> "new"]
    /\ file = [r \in AllReqs |-> NoUpload]
    /\ audioPath = [r \in AllReqs |-> NoPath]
    /\ wasCompressed = [r \in AllReqs |-> FALSE]
    /\ res = [r \in AllReqs |-> NoResponse]
    /\ sent = [r \in AllReqs |-> 0]
    /\ unlinks = {}
    /\ created = [r \in AllReqs |-> {}]
    /\ compression = [r \in AllReqs |-> NoCompression]
    /\ sttCalls = [r \in AllReqs |-> <<>>]
    /\ sttResult = [r \in AllReqs |-> NoResult]
    /\ part = [r \in AllReqs |-> NoPart]
    /\ uniqueSuffix = [r \in AllReqs |-> 0]
    /\ content = [p \in Paths |-> IF p.prefix = 0 THEN p.name ELSE 0]
    /\ heard = [r \in AllReqs |-> 0]

InitDirect == InitScratch /\ InitLib /\ InitClient

NextLib ==
    \/ \E t \in Transcripts : InvokeIdentifySpeakers(t)
    \/ \E rep \in DiarizationReplies(transcriptText) : IdentifySpeakersSettle(rep)
    \/ \E t \in {x \in Transcripts : Len(x) <= 1} : InvokeGenerateSummary(t)
    \/ \E rep \in SummaryReplies : GenerateSummarySettle(rep)
    \/ \E p \in Paths : InvokeTranscribeAudio(p)
    \/ \E o \in ServiceOutcomes : TranscribeAudioSettle(o)
    \/ \E f \in ClientFiles \cup {NoFileSelected} : validateAndSetFile(f)

SpecLib == InitDirect /\ [][NextLib]_vars

\* One session of the page.
NextUI ==
    \/ \E f \in UIFiles : handleFileSelect(f)
    \/ removeFile
    \/ startTranscription
    \/ resetApp
    \/ \E i \in Transcriptions, rnd \in Randoms : intervalCallback(i, rnd)
    \/ \E i \in Transcriptions, o \in FetchOutcomes : fetchSettles(i, o)
    \/ \E i \in Transcriptions : mutationSettles(i)

SpecUI == InitDirect /\ [][NextUI]_vars

(***************************************************************************)
(* The handler under the scheduling of Node: once the upload is stored the *)
(* handler runs, and it runs on when the promise it awaits settles.  The   *)
(* compressor and the external service are taken to return.                *)
(***************************************************************************)
Fairness ==
    \A r \in Reqs :
        /\ WF_vars(HandleNoFile(r))
        /\ WF_vars(HandleCompress(r))
        /\ WF_vars(HandleTranscribe(r))
        /\ WF_vars(\E run \in EncoderRuns : FfmpegDone(r, run))
        /\ WF_vars(\E o \in ServiceOutcomes : WhisperDone(r, o))

SpecLive == Init /\ [][Next]_vars /\ Fairness

(***************************************************************************)
(* One use of the server at a time: requests to POST /api/transcribe, or   *)
(* one direct call of identifySpeakers or of generateSummary.  The handler *)
(* and these two functions share no state, so their steps are not          *)
(* interleaved here.                                                       *)
(***************************************************************************)
noCallYet == lpc = "idle"

noRequestYet == \A r \in AllReqs : pc[r] = "new"

ShortTranscripts == {x \in Transcripts : Len(x) <= 1}

NextOnce ==
    \/ \E r \in Reqs : noCallYet /\ UploadNoFile(r)
    \/ \E r \in Reqs, m \in Mimes, s \in UploadSizes :
           noCallYet /\ Upload(r, freshSuffix(r), m, s)
    \/ \E r \in Reqs : HandleNoFile(r)
    \/ \E r \in Reqs : HandleCompress(r)
    \/ \E r \in Reqs : HandleTranscribe(r)
    \/ \E r \in Reqs, run \in EncoderRuns : FfmpegDone(r, run)
    \/ \E r \in Reqs, o \in ServiceOutcomes : WhisperDone(r, o)
    \/ \E p \in Paths : UnlinkDone(p)
    \/ \E t \in ShortTranscripts : noRequestYet /\ InvokeIdentifySpeakers(t)
    \/ \E rep \in DiarizationReplies(transcriptText) : IdentifySpeakersSettle(rep)
    \/ \E t \in ShortTranscripts : noRequestYet /\ InvokeGenerateSummary(t)
    \/ \E rep \in SummaryReplies : GenerateSummarySettle(rep)

SpecOnce == Init /\ [][NextOnce]_vars

(***************************************************************************)
(* Requests in flight at the same time whose generated names are any       *)
(* values of Date.now() and Math.random(), equal ones included.  The       *)
(* uploads are WAV files below and above the limit of the service.         *)
(***************************************************************************)
ConcurrentSizes == {1, 30 * MB}

ConcurrentRuns == {[exit |-> "ok", out |-> 1000], [exit |-> "fail", out |-> NoFile]}

ConcurrentOutcomes ==
    {o \in ServiceOutcomes : (o.ok /\ o.textIsString) \/ o.error = JsError(<<"connect ECONNRESET">>)}

NextConcurrent ==
    \/ \E r \in Concurrent, suffix \in Suffixes, s \in ConcurrentSizes :
           Upload(r, suffix, "audio/wav", s)
    \/ \E r \in Concurrent : HandleCompress(r)
    \/ \E r \in Concurrent : HandleTranscribe(r)
    \/ \E r \in Concurrent, run \in ConcurrentRuns : FfmpegDone(r, run)
    \/ \E r \in Concurrent, o \in ConcurrentOutcomes : WhisperDone(r, o)
    \/ \E p \in Paths : UnlinkDone(p)

SpecConcurrent == Init /\ [][NextConcurrent]_vars

(***************************************************************************)
(* identifySpeakers on transcripts of whole sentences, and on transcripts  *)
(* longer than the 200 characters of lines 126 and 183, with the replies   *)
(* the local heuristics work on: no JSON, JSON of an unexpected shape, and *)
(* the whole transcript given back as one segment.                         *)
(***************************************************************************)
MaxSentences == 4

\* Sentences with and without the turn-taking phrases of lines 215-222.
SentenceKinds == {<<"a", ".">>, <<"a", "?">>, <<"yeah", ".">>, <<"thank you", ".">>}

Conversations == {join(ss) : ss \in UNION {[1..n -> SentenceKinds] : n \in 0..MaxSentences}}

\* The length a text must exceed to be cut in three (line 126), and the
\* distance beyond the midpoint at which a '. ' is no longer used (line 183).
longText == 200

filler(n) == [i \in 1..n |-> "a"]

\* A sentence of longText \div 2 + 2 characters starting with `first`.
longSentence(first) == <<first>> \o filler(longText \div 2) \o <<".">>

LongTranscripts ==
    LET S == longSentence("A")
        s == longSentence("a")
    IN  { join(<<S, S>>), join(<<S, S, S>>), join(<<S, S, S, S>>),
          join(<<S, s>>), join(<<S, s, S>>), join(<<s, s, s>>),
          <<"A", ".", " ", "A">> \o filler(longText - 5) \o <<".">>,
          <<"A", ".", " ", "A">> \o filler(longText - 4) \o <<".">>,
          filler(2 * longText + 10) \o <<".", " ", "a">> }

DiarizeTranscripts == Conversations \cup LongTranscripts

DiarizeReplies(t) ==
    { [kind |-> "unparsable"], Json(JNull), Json(JNumber(7)),
      Json(JObj(<<Entry("result", JStr(t))>>)),
      Json(JArr(<<Segment("Speaker 1", t)>>)),
      Json(Segment("Speaker 1", t)), Json(Segment("Interviewer", t)),
      Json(Seg(JNull, JStr(t))),
      Json(JObj(<<Entry("speaker1", JStr(t))>>)) }

NextDiarize ==
    \/ \E t \in DiarizeTranscripts : InvokeIdentifySpeakers(t)
    \/ \E rep \in DiarizeReplies(transcriptText) : IdentifySpeakersSettle(rep)

SpecDiarize == InitDirect /\ [][NextDiarize]_vars

(***************************************************************************)
(* Properties of the transcription handler, checked under Spec.            *)
(***************************************************************************)
responded(r) == pc[r] = "responded"

compressionDone(r) == compression[r].runs > 0 /\ pc[r] # "ffmpeg"

encoderFailed(run) == run.exit = "fail" \/ run.out = NoFile \/ run.out = 0

\* C1: once a request with a stored upload has been answered and the issued
\* deletions are finished, none of the scratch files written for it (the
\* upload, the output of the compressor) is left on disk.
C1_NoScratchFileRemains ==
    \A r \in Reqs :
        (responded(r) /\ file[r].present /\ unlinks = {})
            => \A p \in created[r] : ~existsSync(fs, p)

\* C3: when the speech-to-text service fails with an HTTP status, the
\* response carries that status and the message of the service; 500 is only
\* sent for a failure without a status.
C3_ServiceStatusPropagated ==
    \A r \in Reqs :
        (responded(r) /\ sttResult[r].done /\ ~sttResult[r].outcome.ok)
            => LET e == sttResult[r].outcome.error
               IN  IF e.response.present /\ e.response.status # 0
                   THEN /\ res[r].status = e.response.status
                        /\ e.response.apiMessage # ""
                              => res[r].message = <<e.response.apiMessage>>
                   ELSE res[r].status = 500

\* C4: every file handed to the speech-to-text service is at most 25MB,
\* whether the upload was compressed, kept after a failed compression, or
\* small enough from the start.
C4_WithinServiceLimit ==
    \A r \in Reqs :
        \A i \in 1..Len(sttCalls[r]) : sttCalls[r][i] <= 25 * 1024 * 1024

C4_Witness ==
    \E r \in Reqs :
        /\ Len(sttCalls[r]) = 1
        /\ file[r].size > 25 * 1024 * 1024
        /\ compressionDone(r)

\* C5: when the encoder fails or leaves no output or an empty one,
\* compressAudioFile throws nothing, returns its input path and leaves the
\* original in place, and the handler has wasCompressed = false.
C5_FailedCompressionKeepsOriginal ==
    \A r \in Reqs :
        (compressionDone(r) /\ encoderFailed(compression[r].run))
            => /\ ~compression[r].threw
               /\ compression[r].path = filePath(r)
               /\ compression[r].originalExists
               /\ ~wasCompressed[r]

C5_Witness ==
    \E r \in Reqs :
        /\ compressionDone(r)
        /\ compression[r].run = [exit |-> "ok", out |-> 0]
        /\ responded(r)

\* C6: when the encoder succeeds with a non-empty output, compressAudioFile
\* deletes the original and returns the output path (another path than its
\* input), and the handler has wasCompressed = true; and the original only
\* disappears in a step that leaves an existing, non-empty output.
C6_Result ==
    \A r \in Reqs :
        (compressionDone(r) /\ ~encoderFailed(compression[r].run))
            => /\ ~compression[r].originalExists
               /\ compression[r].path = outputPathOf(filePath(r))
               /\ compression[r].path # filePath(r)
               /\ wasCompressed[r]

C6_Order ==
    \A r \in Reqs :
        (pc[r] = "ffmpeg" /\ existsSync(fs, filePath(r)) /\ ~existsSync(fs', filePath(r)))
            => outputUsable(fs', outputPathOf(filePath(r)))

C6_CompressionReplacesOriginal == [][C6_Result' /\ C6_Order]_vars

C6_Witness ==
    \E r \in Reqs :
        /\ compressionDone(r)
        /\ compression[r].run = [exit |-> "ok", out |-> 1000]
        /\ ~existsSync(fs, filePath(r))
        /\ pc[r] = "whisper"

\* C12: every upload that reaches the handler with a stored file has a
\* declared MIME type of the allow-list and a size not above the upload
\* ceiling (100MB in the compression variant, 25MB in the simple one); an
\* upload with another MIME type or above the ceiling is rejected: the
\* handler never runs for it, no compression and no call of the service is
\* made, and no scratch file of it is in storage.
C12_FileIntake ==
    \A r \in Reqs :
        LET ceiling == IF variant = "compress" THEN 100 * 1024 * 1024
                                               ELSE 25 * 1024 * 1024
            allowed == {"audio/mpeg", "audio/wav", "audio/mp4", "audio/x-m4a"}
        IN  /\ file[r].present
                  => /\ file[r].mimetype \in allowed
                     /\ file[r].size <= ceiling
                     /\ file[r] = part[r]
            /\ (part[r].present
                   /\ (part[r].mimetype \notin allowed \/ part[r].size > ceiling))
                  => /\ pc[r] = "rejected"
                     /\ ~file[r].present
                     /\ res[r] = NoResponse
                     /\ compression[r].runs = 0
                     /\ sttCalls[r] = <<>>
                     /\ created[r] = {}
                     /\ \A p \in Paths : content[p] # r

C12_Witness ==
    \E r \in Reqs :
        /\ pc[r] = "rejected"
        /\ variant = "compress"
        /\ part[r].mimetype = "audio/wav"
        /\ part[r].size = 100 * 1024 * 1024 + 1

\* C13: a request without a file part is answered with 400 and "No audio
\* file provided"; the step that answers it changes nothing in scratch
\* storage and issues no deletion, and neither the compressor nor the
\* speech-to-text service is ever invoked for it.
C13_NoFileStep ==
    \A r \in Reqs :
        (pc[r] = "handler" /\ ~part[r].present /\ pc'[r] # pc[r])
            => /\ pc'[r] = "responded"
               /\ fs' = fs
               /\ unlinks' = unlinks

C13_NoFileAnswer ==
    \A r \in Reqs :
        (responded(r) /\ ~part[r].present)
            => /\ res[r].status = 400
               /\ res[r].message = <<"No audio file provided">>
               /\ sent[r] = 1
               /\ compression[r].runs = 0
               /\ sttCalls[r] = <<>>
               /\ created[r] = {}

C13_NoFilePart == [][C13_NoFileStep /\ C13_NoFileAnswer']_vars

C13_Witness ==
    \E r \in Reqs : responded(r) /\ ~part[r].present /\ res[r].status = 400

\* C14: in the compression variant an accepted upload above 25MB is
\* compressed, once, before the service is called; when the transcription
\* of such an upload succeeds the 200 response has wasCompressed = true;
\* wasCompressed is true only when the file handed to the service was the
\* output of the compressor; an upload of at most 25MB is never compressed
\* and its 200 response has wasCompressed = false.
C14_CompressionScenario ==
    \A r \in Reqs :
        LET large == file[r].present /\ file[r].size > 25 * 1024 * 1024
            small == file[r].present /\ file[r].size <= 25 * 1024 * 1024
        IN  /\ (large /\ pc[r] # "handler") => compression[r].runs = 1
            /\ (large /\ sttCalls[r] # <<>>)
                  => /\ compressionDone(r)
                     /\ compression[r].run.exit = "ok"
                     /\ compression[r].run.out <= 25 * 1024 * 1024
            /\ (large /\ responded(r) /\ sttResult[r].done
                   /\ sttResult[r].outcome.ok /\ sttResult[r].outcome.textIsString)
                  => res[r].status = 200 /\ res[r].wasCompressed
            /\ res[r].wasCompressed
                  => /\ large
                     /\ audioPath[r] = outputPathOf(filePath(r))
                     /\ compression[r].path = audioPath[r]
                     /\ sttCalls[r] = <<compression[r].run.out>>
            /\ small => /\ compression[r].runs = 0
                        /\ ~wasCompressed[r]
                        /\ res[r].status = 200 => ~res[r].wasCompressed

C14_Witness ==
    \E r \in Reqs :
        /\ file[r].mimetype = "audio/wav"
        /\ file[r].size = 30 * 1024 * 1024
        /\ res[r].status = 200
        /\ res[r].wasCompressed

\* C16: nothing is retried.  Within one request the compressor is invoked
\* at most once and the speech-to-text service is called at most once,
\* whatever either did; an invocation of identifySpeakers or of
\* generateSummary has issued exactly one call of the external model, while
\* it waits for the reply and after it has settled.  (Checked under
\* SpecOnce.)
C16_NothingRetried ==
    /\ \A r \in Reqs :
          /\ compression[r].runs <= 1
          /\ Len(sttCalls[r]) <= 1
          /\ sent[r] <= 1
    /\ (fn \in {"identifySpeakers", "generateSummary"} /\ lpc \in {"awaiting", "settled"})
          => extCalls = 1

C16_Witness ==
    \E r \in Reqs :
        /\ responded(r)
        /\ compressionDone(r)
        /\ sttResult[r].done
        /\ ~sttResult[r].outcome.ok
        /\ Len(sttCalls[r]) = 1

\* C17: the steps of a request are sequential.  No call of the service is
\* made while the compressor runs, and when compression was triggered the
\* compressor has returned before the call starts; while the call is in
\* flight the file being transcribed is in storage and no deletion of it
\* has been issued; a deletion of it is issued, and carried out, only after
\* the call has returned or failed.
C17_Sequential ==
    \A r \in Reqs :
        /\ pc[r] = "ffmpeg" => sttCalls[r] = <<>>
        /\ (sttCalls[r] # <<>> /\ compression[r].runs > 0)
              => compressionDone(r) /\ compression[r].path = audioPath[r]
        /\ pc[r] = "whisper"
              => /\ sttCalls[r] # <<>>
                 /\ ~sttResult[r].done
                 /\ existsSync(fs, audioPath[r])
                 /\ audioPath[r] \notin unlinks
        /\ (sttCalls[r] # <<>>
               /\ (audioPath[r] \in unlinks \/ ~existsSync(fs, audioPath[r])))
              => sttResult[r].done /\ responded(r)

C17_Witness ==
    \E r \in Reqs :
        /\ compressionDone(r)
        /\ sttResult[r].done
        /\ audioPath[r] \in unlinks

\* C18: concurrent requests are independent.  While a request is in flight
\* the file it works on (its upload, then the file it hands to the service)
\* is in storage, holds its own audio and has no deletion issued by another
\* request; the audio handed to the service for a request is the audio of
\* its own upload, and so is the transcription of its 200 response.
\* (Checked under SpecConcurrent.)
C18_RequestsIndependent ==
    \A r \in Concurrent :
        /\ (pc[r] \in {"handler", "ffmpeg"} /\ file[r].present)
              => /\ existsSync(fs, filePath(r))
                 /\ content[filePath(r)] = r
                 /\ filePath(r) \notin unlinks
        /\ pc[r] = "whisper"
              => /\ existsSync(fs, audioPath[r])
                 /\ content[audioPath[r]] = r
                 /\ audioPath[r] \notin unlinks
        /\ heard[r] \in {0, r}
        /\ res[r].status = 200 => heard[r] = r

\* C19: when the file is still above 25MB after the compression step (the
\* compression failed and the original was kept, or the output of the
\* compressor is above 25MB), the request is answered with an error whose
\* message is the "File still too large after compression" one, the
\* speech-to-text service is not called, and the deletion of the file is
\* issued: once the deletions are carried out neither the upload nor the
\* file that was too large is in storage.
C19_StillTooLargeFails ==
    \A r \in Reqs :
        (/\ compressionDone(r)
         /\ file[r].size > 25 * 1024 * 1024
         /\ \/ encoderFailed(compression[r].run)
            \/ compression[r].run.out > 25 * 1024 * 1024)
            => /\ responded(r)
               /\ res[r].status = 500
               /\ res[r].message = <<"File still too large after compression">>
               /\ sttCalls[r] = <<>>
               /\ ~sttResult[r].done
               /\ audioPath[r] \in unlinks \/ ~existsSync(fs, audioPath[r])
               /\ unlinks = {} => /\ ~existsSync(fs, audioPath[r])
                                  /\ ~existsSync(fs, filePath(r))

C19_Witness ==
    \E r \in Reqs :
        /\ compressionDone(r)
        /\ compression[r].run = [exit |-> "ok", out |-> 25 * 1024 * 1024 + 1]
        /\ res[r].status = 500
        /\ unlinks = {}

\* C20: whenever compressAudioFile returns another path than its input,
\* for an input above 25MB, the file at that path is no larger than the
\* input was, and the input has been removed.
C20_CompressedNoLarger ==
    \A r \in Reqs :
        (/\ compressionDone(r)
         /\ file[r].size > 25 * 1024 * 1024
         /\ compression[r].path # filePath(r))
            => /\ compression[r].run.out <= file[r].size
               /\ ~compression[r].originalExists

(***************************************************************************)
(* Properties of the exported functions, checked under SpecLib.            *)
(***************************************************************************)
settledCall(f) == fn = f /\ lpc = "settled"

\* C2: identifySpeakers never rejects and returns at least one segment,
\* whatever the external model replied.
C2_AtLeastOneSegment ==
    settledCall("identifySpeakers")
        => settled.state = "resolved" /\ Len(settled.value) >= 1

\* C7: transcribeAudio on a path with no file rejects with the "Audio file
\* not found" error and makes no call to the external service.
C7_FileNotFound ==
    (settledCall("transcribeAudio") /\ ~existsSync(fs, audioFilePath))
        => /\ settled.state = "rejected"
           /\ settled.value.message[Len(settled.value.message)] = "Audio file not found"
           /\ extCalls = 0

C7_Witness ==
    /\ settledCall("transcribeAudio")
    /\ ~existsSync(fs, audioFilePath)
    /\ settled.state = "rejected"

\* C8, as claimed: when the external call raises, and when the reply is
\* unparsable and the transcript has at most 2 sentences, the result is the
\* single segment "Unknown" with the whole transcript.
C8_UnknownOnTotalFailure ==
    (/\ settledCall("identifySpeakers")
     /\ \/ reply.kind = "throws"
        \/ reply.kind = "unparsable" /\ Len(sentencesOf(transcriptText)) <= 2)
        => settled = Resolved(<<Segment("Unknown", transcriptText)>>)

\* C8, amended: the result is a single segment with the whole transcript,
\* labeled "Unknown" when the external call raises and "Speaker 1" when the
\* reply is unparsable and the transcript has at most 2 sentences.
C8_SingleSegmentOnTotalFailure ==
    settledCall("identifySpeakers")
        => /\ reply.kind = "throws"
                => settled = Resolved(<<Segment("Unknown", transcriptText)>>)
           /\ (reply.kind = "unparsable" /\ Len(sentencesOf(transcriptText)) <= 2)
                => settled = Resolved(<<Segment("Speaker 1", transcriptText)>>)

C8_Witness ==
    /\ settledCall("identifySpeakers")
    /\ reply.kind = "unparsable"
    /\ Len(sentencesOf(transcriptText)) = 2
    /\ Len(settled.value) = 1

\* The reply is an array of exactly one {speaker, text} with a string text.
singleSegmentReply ==
    /\ reply.kind = "json"
    /\ isArray(reply.value)
    /\ Len(reply.value.items) = 1
    /\ reply.value.items[1].kind = "object"
    /\ getProp(reply.value.items[1], "text").kind = "string"

\* C9: a reply of exactly one segment with n >= 2 sentences gives exactly
\* two segments, "Speaker 1" with the first ceil(n/2) sentences and
\* "Speaker 2" with the others, in order; with one sentence the reply is
\* returned as it is.
C9_SingleSpeakerCollapse ==
    (settledCall("identifySpeakers") /\ singleSegmentReply)
        => LET sents == sentencesOf(getProp(reply.value.items[1], "text").s)
               n == Len(sents)
               k == CHOOSE x \in 0..n : 2 * x >= n /\ 2 * (x - 1) < n
           IN  /\ n >= 2 =>
                    /\ settled.state = "resolved"
                    /\ Len(settled.value) = 2
                    /\ settled.value[1] = Segment("Speaker 1", join(SubSeq(sents, 1, k)))
                    /\ settled.value[2] = Segment("Speaker 2", join(SubSeq(sents, k + 1, n)))
               /\ n = 1 => settled = Resolved(reply.value.items)

C9_Witness ==
    /\ settledCall("identifySpeakers")
    /\ singleSegmentReply
    /\ Len(sentencesOf(getProp(reply.value.items[1], "text").s)) = 3
    /\ Len(settled.value) = 2

\* C10: for every parsable reply (and for absent content) generateSummary
\* returns a summary in which each of keyPoints, topics and actionItems
\* that the reply lacks is an empty list.
C10_MissingFieldsDefault ==
    (settledCall("generateSummary") /\ reply.kind \in {"json", "absent"})
        => /\ settled.state = "resolved"
           /\ LET v == IF reply.kind = "json" THEN reply.value ELSE JObj(<<>>)
              IN  /\ ~hasKey(v, "keyPoints") => settled.value.keyPoints = EmptyList
                  /\ ~hasKey(v, "topics") => settled.value.topics = EmptyList
                  /\ ~hasKey(v, "actionItems") => settled.value.actionItems = EmptyList

\* C11: when the reply to the summarizer is non-empty and not valid JSON, or
\* the external call fails, generateSummary rejects with an error (no
\* summary, partial or defaulted, is returned) and the external model has
\* been called exactly once.
C11_SummaryFailureRejects ==
    (settledCall("generateSummary") /\ reply.kind \in {"unparsable", "throws"})
        => /\ settled.state = "rejected"
           /\ settled.value.message # <<>>
           /\ extCalls = 1

C11_Witness ==
    /\ settledCall("generateSummary")
    /\ reply.kind = "unparsable"
    /\ settled.state = "rejected"

\* C15: for every file of an allowed audio type and of at most 100MB the
\* validation of the upload page reports no error and the file becomes the
\* selected file (so that files between 25MB and 100MB can be sent to the
\* server and reach its compression).
C15_ClientAcceptsUpTo100MB ==
    (/\ settledCall("validateAndSetFile")
     /\ dropped.present
     /\ dropped.type \in {"audio/mpeg", "audio/wav", "audio/mp4", "audio/x-m4a"}
     /\ dropped.size <= 100 * 1024 * 1024)
        => fileError = <<>> /\ selectedFile = dropped

(***************************************************************************)
(* Properties of the results identifySpeakers builds itself.               *)
(***************************************************************************)
\* The text without its whitespace.
squeeze(s) == SelectSeq(s, LAMBDA c : ~IsSpace(c))

\* The texts of the segments, one after the other.
RECURSIVE textsOf(_)
textsOf(segments) ==
    IF segments = <<>> THEN <<>>
    ELSE getProp(segments[1], "text").s \o textsOf(Tail(segments))

\* The reply is a one-element array whose text has more than one sentence:
\* the result is the two halves of that text.
halvedReply ==
    /\ reply.kind = "json"
    /\ isArray(reply.value)
    /\ Len(reply.value.items) = 1
    /\ getProp(reply.value.items[1], "text").kind = "string"
    /\ Len(sentencesOf(getProp(reply.value.items[1], "text").s)) > 1

\* The reply is valid JSON in which no structured recovery finds segments:
\* not null, not an array, no `segments` or `speakers` array, and no entry
\* that reads as a speaker segment.
unrecoveredReply ==
    /\ reply.kind = "json"
    /\ reply.value.kind \notin {"null", "array"}
    /\ ~isArray(getProp(reply.value, "segments"))
    /\ ~isArray(getProp(reply.value, "speakers"))
    /\ reply.value.kind = "object" => entrySegments(reply.value) = <<>>

\* Reading the reply throws inside the parse: no JSON, JSON null, or a
\* one-element array whose element has no string `text`.
parseThrows ==
    \/ reply.kind = "unparsable"
    \/ /\ reply.kind = "json"
       /\ \/ reply.value.kind = "null"
          \/ /\ isArray(reply.value)
             /\ Len(reply.value.items) = 1
             /\ getProp(reply.value.items[1], "text").kind # "string"

\* The result is built from the transcript alone.
builtFromTranscript ==
    \/ reply.kind \in {"throws", "noChoices", "absent"}
    \/ parseThrows
    \/ unrecoveredReply

\* C21: the texts of a locally built result (the two halves of a one-element
\* reply, the midpoint split, the sentence walk, the single-segment
\* fallbacks), taken in order, are the source text up to whitespace: nothing
\* is dropped, duplicated or reordered.
C21_TextPreserved ==
    settledCall("identifySpeakers")
        => /\ halvedReply
                => squeeze(textsOf(settled.value))
                       = squeeze(getProp(reply.value.items[1], "text").s)
           /\ builtFromTranscript
                => squeeze(textsOf(settled.value)) = squeeze(transcriptText)

C21_Witness ==
    /\ settledCall("identifySpeakers")
    /\ unrecoveredReply
    /\ Len(settled.value) = 2
    /\ textsOf(settled.value) # transcriptText
    /\ \A i \in 1..2 : getProp(settled.value[i], "text").s # <<>>

\* C22: a reply that parses as an object with a `segments` array is answered
\* with exactly that array; otherwise one with a `speakers` array is answered
\* with exactly that array.  `segments` comes first when both are present, and
\* the arrays are returned as they are, whatever they hold.
C22_AcceptsArrayField ==
    (settledCall("identifySpeakers") /\ reply.kind = "json" /\ reply.value.kind = "object")
        => LET segments == getProp(reply.value, "segments")
               speakers == getProp(reply.value, "speakers")
           IN  /\ isArray(segments) => settled = Resolved(segments.items)
               /\ (~isArray(segments) /\ isArray(speakers))
                      => settled = Resolved(speakers.items)

C22_Witness ==
    /\ settledCall("identifySpeakers")
    /\ reply.kind = "json"
    /\ reply.value.kind = "object"
    /\ isArray(getProp(reply.value, "segments"))
    /\ isArray(getProp(reply.value, "speakers"))
    /\ getProp(reply.value, "segments") # getProp(reply.value, "speakers")
    /\ Len(transcriptText) > 0
    /\ settled = Resolved(getProp(reply.value, "segments").items)

\* C23, as claimed: when no structured recovery finds segments in a reply
\* that is valid JSON, the result is the one the sentence walk gives when
\* the reply cannot be parsed.
C23_SentenceWalkOnUnrecovered ==
    (settledCall("identifySpeakers") /\ unrecoveredReply)
        => settled = identifySpeakers(transcriptText, [kind |-> "unparsable"])

\* C23, amended: when no structured recovery finds segments in a reply that
\* is valid JSON and not null, the result is the two segments "Speaker 1" and
\* "Speaker 2" holding the trimmed parts of the transcript before and after a
\* cut: right after the first ". " found at or after the midpoint when it
\* lies at most 200 characters past the midpoint, at the midpoint otherwise.
C23_MidpointOnUnrecovered ==
    (settledCall("identifySpeakers") /\ unrecoveredReply)
        => LET t == transcriptText
               mid == Len(t) \div 2
               periods == {i \in mid..(Len(t) - 2) : t[i + 1] = "." /\ t[i + 2] = " "}
               cut == IF periods = {} \/ least(periods) > mid + longText
                      THEN mid ELSE least(periods) + 2
           IN  settled = Resolved(<<Segment("Speaker 1", trim(SubSeq(t, 1, cut))),
                                    Segment("Speaker 2", trim(SubSeq(t, cut + 1, Len(t))))>>)

\* The cut is made after a ". " that lies past the midpoint.
C23_Witness ==
    /\ settledCall("identifySpeakers")
    /\ unrecoveredReply
    /\ Len(sentencesOf(transcriptText)) > 2
    /\ Len(settled.value) = 2
    /\ Len(getProp(settled.value[1], "text").s) > Len(transcriptText) \div 2 + 1

\* A switch trigger between two consecutive sentences, as the claim lists them.
switchTrigger(prev, curr) ==
    \/ prev[Len(prev)] = "?"
    \/ \E i \in 1..Len(prev) : prev[i] \in {"thank you", "could you", "what do you think"}
    \/ \E i \in 1..Len(curr) : curr[i] \in {"yeah", "okay", "so,", "well,"}

\* The k-th smallest element of a set of numbers.
nth(S, k) == CHOOSE i \in S : Cardinality({j \in S : j < i}) = k - 1

\* C24: when the reply cannot be parsed and the transcript has more than 2
\* sentences, the result has one segment per run of sentences between switch
\* triggers: the first segment is "Speaker 1", neighbouring segments
\* alternate between "Speaker 1" and "Speaker 2", there is one segment more
\* than there are sentences i >= 1 at which a trigger fires, and segment k
\* holds, joined by single spaces and in order, the sentences from its first
\* sentence up to the one before the next trigger.
C24_SentenceWalk ==
    (/\ settledCall("identifySpeakers")
     /\ reply.kind = "unparsable"
     /\ Len(sentencesOf(transcriptText)) > 2)
        => LET ss == sentencesOf(transcriptText)
               n == Len(ss)
               starts == {1} \cup {i \in 2..n : switchTrigger(ss[i - 1], ss[i])}
               R == settled.value
               last(k) == IF k = Len(R) THEN n ELSE nth(starts, k + 1) - 1
           IN  /\ settled.state = "resolved"
               /\ Len(R) = Cardinality(starts)
               /\ getProp(R[1], "speaker") = JStr(<<"Speaker 1">>)
               /\ \A k \in 1..Len(R) :
                      /\ getProp(R[k], "speaker") =
                             JStr(<<IF k % 2 = 1 THEN "Speaker 1" ELSE "Speaker 2">>)
                      /\ getProp(R[k], "text") =
                             JStr(join(SubSeq(ss, nth(starts, k), last(k))))

\* A walk over four sentences with a phrase trigger, a question trigger and
\* a sentence that stays with the speaker before it.
C24_Witness ==
    /\ settledCall("identifySpeakers")
    /\ reply.kind = "unparsable"
    /\ Len(sentencesOf(transcriptText)) = 4
    /\ Len(settled.value) = 3
    /\ transcriptText[1] = "thank you"
    /\ \E i \in 1..Len(transcriptText) : transcriptText[i] = "?"

\* The reply is a single object {speaker, text}, or an object whose only
\* entry has a speaker-like key and a string value.
singleSpeakerObject ==
    /\ reply.kind = "json"
    /\ reply.value.kind = "object"
    /\ \/ /\ Len(reply.value.entries) = 2
          /\ reply.value.entries[1].key = "speaker"
          /\ reply.value.entries[2].key = "text"
          /\ reply.value.entries[2].val.kind = "string"
       \/ /\ Len(reply.value.entries) = 1
          /\ includesSpeaker(reply.value.entries[1].key)
          /\ reply.value.entries[1].val.kind = "string"

\* The one segment such a reply stands for.
singleSegment ==
    IF Len(reply.value.entries) = 2
    THEN Seg(reply.value.entries[1].val, reply.value.entries[2].val)
    ELSE Seg(JStr(<<reply.value.entries[1].key>>), reply.value.entries[1].val)

\* The text has whitespace that follows a '.', '!' or '?' and is followed by
\* a capital letter.
hasSentenceBoundary(text) ==
    \E k \in 2..Len(text), j \in 2..Len(text) :
        /\ k <= j
        /\ j < Len(text)
        /\ IsPunct(text[k - 1])
        /\ \A m \in k..j : IsSpace(text[m])
        /\ IsUpper(text[j + 1])

\* C30: a reply that is a single {speaker, text} object (or has exactly one
\* speaker-like key) whose text is longer than 200 characters and has a
\* sentence boundary followed by a capital letter is answered with exactly
\* three segments labeled first, second, first speaker (the second speaker
\* being "Interviewee" when the first is "Interviewer" and "Speaker 2"
\* otherwise), each with a non-empty text, which together cover the text in
\* order; otherwise the single segment is returned unchanged.
C30_ThreeWaySplit ==
    (settledCall("identifySpeakers") /\ singleSpeakerObject)
        => LET text == getProp(singleSegment, "text").s
               speaker == getProp(singleSegment, "speaker")
               first == IF truthy(speaker) THEN speaker ELSE JStr(<<"Speaker 1">>)
               second == IF first = JStr(<<"Interviewer">>)
                         THEN JStr(<<"Interviewee">>) ELSE JStr(<<"Speaker 2">>)
               R == settled.value
           IN  IF Len(text) > 200 /\ hasSentenceBoundary(text)
               THEN /\ Len(R) = 3
                    /\ getProp(R[1], "speaker") = first
                    /\ getProp(R[2], "speaker") = second
                    /\ getProp(R[3], "speaker") = first
                    /\ \A k \in 1..3 : getProp(R[k], "text").s # <<>>
                    /\ squeeze(textsOf(R)) = squeeze(text)
               ELSE R = <<singleSegment>>

(***************************************************************************)
(* Properties of the handler under SpecLive.                               *)
(***************************************************************************)
\* At most one answer per request, sent exactly when the handler is done,
\* and with status 200 only after a successful call of the service.
oneResponse ==
    \A r \in Reqs :
        /\ sent[r] <= 1
        /\ responded(r) <=> sent[r] = 1
        /\ (responded(r) /\ res[r].status = 200)
              => sttResult[r].done /\ sttResult[r].outcome.ok

\* C25: every request that reaches the handler is answered exactly once on
\* every path: no second answer is ever sent, an answer is eventually sent
\* (the compressor and the external service returning), and the status is
\* 200 only if the external transcription call succeeded.
C25_ExactlyOneResponse ==
    /\ []oneResponse
    /\ \A r \in Reqs : (pc[r] = "handler") ~> (sent[r] = 1)

\* An upload that was compressed, transcribed and answered with 200.
C25_Witness ==
    \E r \in Reqs :
        /\ responded(r)
        /\ sent[r] = 1
        /\ res[r].status = 200
        /\ compression[r].runs > 0
        /\ sttResult[r].done

(***************************************************************************)
(* Properties of the page and of useTranscription, checked under SpecUI.   *)
(***************************************************************************)
\* A transcription is started in this step.
starts == started' = started + 1

\* A request is completed in this step, with success or error.
completes == \E i \in Transcriptions : mutations[i].status # "done" /\ mutations'[i].status = "done"

\* C26: the results step is entered only from the transcribing step, when a
\* request completes; and the upload step is left only by starting a
\* transcription, so that after "Start over" the page stays at the upload
\* step whenever the request in flight completes.
C26_ResultsOnlyFromTranscribing ==
    [][/\ (step # 3 /\ step' = 3) => (step = 2 /\ completes)
       /\ (step = 1 /\ step' # 1) => (step' = 2 /\ starts)]_vars

\* The latest transcription started is still pending.
pending == started > 0 /\ mutations[started].status = "pending"

\* C27: from the start of a transcription the progress never decreases, it
\* does not exceed 90 while the request is pending, and once it is 100 it
\* stays 100 until the next transcription is started.
C27_ProgressMonotone ==
    [][/\ ~starts => transcriptionProgress' >= transcriptionProgress
       /\ pending' => transcriptionProgress' <= Percent(90)
       /\ (transcriptionProgress = Percent(100) /\ ~starts)
              => transcriptionProgress' = Percent(100)]_vars

passes(f) ==
    /\ f.type \in {"audio/mpeg", "audio/wav", "audio/mp4", "audio/x-m4a"}
    /\ f.size <= 25 * MB

selectedFilePasses ==
    /\ selectedFile.present => passes(selectedFile)
    /\ \A i \in Transcriptions : mutations[i].status # "none" => passes(mutations[i].file)

=============================================================================
